---- MODULE Spec2Model ----
(***************************************************************************)
(* Small-step model of the push iterators of package slice (slice.go).     *)
(*                                                                         *)
(* A sequence value is a closure over its upstream sequence(s); it is      *)
(* modelled as a tree node.  Driving a sequence runs Go's range-over-func  *)
(* protocol: the iterator function of a node is called ("call"), a source  *)
(* hands each element to the loop body of the node that ranges over it     *)
(* ("body"), the outermost body is the consumer's ("cb"), every body       *)
(* returns its continue/stop boolean to the yield call that invoked it     *)
(* ("back"), and an iterator function that returns hands control back to   *)
(* the range statement that called it ("ret", or "fin" for the consumer).  *)
(***************************************************************************)
EXTENDS Integers, Sequences, FiniteSets

\* ---------------------------------------------------------------- bounds
MaxLen == 2      \* longest source slice
MaxNodes == 3    \* most nodes (closures) in the sequence a client builds

\* ---------------------------------------------------------------- inputs
\* source slices: the ascending and the descending runs of 1..MaxLen
Slices ==
  {[i \in 1..n |-> i] : n \in 0..MaxLen} \cup {[i \in 1..n |-> MaxLen + 1 - i] : n \in 0..MaxLen}

ZipLeft == {[i \in 1..n |-> i] : n \in 0..MaxLen}

ZipRight == {[i \in 1..n |-> 10 * i] : n \in 0..MaxLen}

\* pairs of slices given to Zip: equal lengths, and lengths one apart
ZipPairs ==
  {q \in ZipLeft \X ZipRight : Len(q[1]) - Len(q[2]) \in {-1, 0, 1}}

Transforms == {"double", "left", "value"}

Predicates == {"even", "odd"}

\* the invocation on which the client's callback answers false; 0 is never
Stops == 0..MaxLen

Combines == {"add", "shift"}

Initials == {0, 7}

TInt == <<"int">>

TTuple == <<"tuple">>

\* argument type of a transform
TransformArg(f, ty) ==
  CASE f = "double" -> ty = TInt
    [] f = "left" -> ty = TTuple
    [] f = "value" -> Len(ty) > 1 /\ Head(ty) = "enum"

\* result type of a transform
TransformRes(f, ty) ==
  CASE f = "double" -> TInt
    [] f = "left" -> TInt
    [] f = "value" -> Tail(ty)

\* transform(v)
Transform(f, v) ==
  CASE f = "double" -> v * 2
    [] f = "left" -> v.Left
    [] f = "value" -> v.Value

\* filter(v), predicate(v)
Predicate(p, v) ==
  CASE p = "even" -> v % 2 = 0
    [] p = "odd" -> v % 2 = 1

\* reduce(acc, curr)
Combine(c, acc, curr) ==
  CASE c = "add" -> acc + curr
    [] c = "shift" -> acc * 2 + curr

Tuple(l, r) == [Left |-> l, Right |-> r]

Enumerated(i, v) == [Index |-> i, Value |-> v]

\* ------------------------------------------------------- sequence values
MkNode(op, s, s2, f, kids) == [op |-> op, s |-> s, s2 |-> s2, f |-> f, kids |-> kids]

RECURSIVE Size(_)
Size(t) ==
  LET RECURSIVE Sum(_)
      Sum(k) == IF k = 0 THEN 0 ELSE Size(t.kids[k]) + Sum(k - 1)
  IN  1 + Sum(Len(t.kids))

RECURSIVE TypeOf(_)
TypeOf(t) ==
  CASE t.op = "NewIterator" -> TInt
    [] t.op = "Zip" -> TTuple
    [] t.op = "Map" -> TransformRes(t.f, TypeOf(t.kids[1]))
    [] t.op = "Filter" -> TypeOf(t.kids[1])
    [] t.op = "Enumerate" -> <<"enum">> \o TypeOf(t.kids[1])
    [] t.op = "Concat" -> IF t.kids = <<>> THEN TInt ELSE TypeOf(t.kids[1])

RECURSIVE Zero(_)
Zero(ty) ==
  CASE Head(ty) = "int" -> 0
    [] Head(ty) = "tuple" -> Tuple(0, 0)
    [] Head(ty) = "enum" -> Enumerated(0, Zero(Tail(ty)))

RECURSIVE Paths(_)
Paths(t) ==
  {<<>>} \cup UNION {{<<k>> \o p : p \in Paths(t.kids[k])} : k \in 1..Len(t.kids)}

RECURSIVE NodeAt(_, _)
NodeAt(t, p) == IF p = <<>> THEN t ELSE NodeAt(t.kids[Head(p)], Tail(p))

Parent(p) == SubSeq(p, 1, Len(p) - 1)

\* ------------------------------------------------------------------ state
VARIABLES
  pool,    \* the sequence values the client holds
  drv,     \* the sequence being driven, <<>> when none
  term,    \* the terminal operation in progress or last finished
  pc,      \* control point of the drive
  loc,     \* locals of the running iterator functions, by node path
  cnt,     \* Count's cnt
  out,     \* Collect's out
  res,     \* Reduce's res
  calls,   \* invocations counted by the client's callback
  result,  \* <<value>> returned by the terminal operation, <<>> before
  trace,   \* history of the current drive
  last     \* what the previous terminal operation on the sequence delivered

vars == <<pool, drv, term, pc, loc, cnt, out, res, calls, result, trace, last>>

NoLast == [op |-> "none", stop |-> 0, vals |-> <<>>]

NoTerm == [op |-> "none", run |-> "none", of |-> <<>>, a |-> "", init |-> 0, stop |-> 0]

At(k, p, v) == [k |-> k, at |-> p, v |-> v]

Idle == At("idle", <<>>, 0)

Ev(e, p, i, v, r) == [e |-> e, at |-> p, i |-> i, v |-> v, r |-> r]

Init ==
  /\ pool = <<>>
  /\ drv = <<>>
  /\ term = NoTerm
  /\ pc = Idle
  /\ loc = <<>>
  /\ cnt = 0
  /\ out = <<>>
  /\ res = 0
  /\ calls = 0
  /\ result = <<>>
  /\ trace = <<>>
  /\ last = NoLast

RECURSIVE PoolSize(_)
PoolSize(ps) == IF ps = <<>> THEN 0 ELSE Size(Head(ps)) + PoolSize(Tail(ps))

DriveVars == <<drv, term, pc, loc, cnt, out, res, calls, result, trace, last>>

Building == pc.k = "idle"

\* ------------------------------------------------------------ construction
NewIterator(s) ==
  /\ Building
  /\ PoolSize(pool) + (IF pool = <<>> THEN 1 ELSE 2) <= MaxNodes
  /\ pool' = Append(pool, MkNode("NewIterator", s, <<>>, "", <<>>))
  /\ UNCHANGED DriveVars

Zip(s1, s2) ==
  /\ Building
  /\ PoolSize(pool) + (IF pool = <<>> THEN 1 ELSE 2) <= MaxNodes
  /\ pool' = Append(pool, MkNode("Zip", s1, s2, "", <<>>))
  /\ UNCHANGED DriveVars

\* the source is driven and transformed when the Map is constructed
MapEager(j, transform) ==
  /\ Building
  /\ j \in DOMAIN pool
  /\ PoolSize(pool) < MaxNodes
  /\ TransformArg(transform, TypeOf(pool[j]))
  /\ pool' = [pool EXCEPT ![j] = MkNode("Map", <<>>, <<>>, transform, <<pool[j]>>)]
  /\ trace' = Append(trace, Ev("call", <<1>>, 0, 0, TRUE))
                 \o [i \in 1..Len(pool[j].s) |->
                       Ev("transform", <<>>, 0, pool[j].s[i], TRUE)]
  /\ UNCHANGED <<drv, term, pc, loc, cnt, out, res, calls, result, last>>

Map(j, transform) ==
  /\ Building
  /\ j \in DOMAIN pool
  /\ PoolSize(pool) < MaxNodes
  /\ TransformArg(transform, TypeOf(pool[j]))
  /\ pool' = [pool EXCEPT ![j] = MkNode("Map", <<>>, <<>>, transform, <<pool[j]>>)]
  /\ UNCHANGED DriveVars

Filter(j, filter) ==
  /\ Building
  /\ j \in DOMAIN pool
  /\ PoolSize(pool) < MaxNodes
  /\ TypeOf(pool[j]) = TInt
  /\ pool' = [pool EXCEPT ![j] = MkNode("Filter", <<>>, <<>>, filter, <<pool[j]>>)]
  /\ UNCHANGED DriveVars

Enumerate(j) ==
  /\ Building
  /\ j \in DOMAIN pool
  /\ PoolSize(pool) < MaxNodes
  /\ pool' = [pool EXCEPT ![j] = MkNode("Enumerate", <<>>, <<>>, "", <<pool[j]>>)]
  /\ UNCHANGED DriveVars

Concat ==
  /\ Building
  /\ PoolSize(pool) < MaxNodes
  /\ \A j \in DOMAIN pool : TypeOf(pool[j]) = TypeOf(pool[1])
  /\ pool' = <<MkNode("Concat", <<>>, <<>>, "", pool)>>
  /\ UNCHANGED DriveVars

\* ------------------------------------------------------- the yield protocol
\* the node whose code is running
Here == NodeAt(drv, pc.at)

\* node p calls yield(v): the body of the range loop over p runs next
Yield(p, v) == IF p = <<>> THEN At("cb", <<>>, v) ELSE At("body", Parent(p), v)

\* the iterator function of node p returns to the range statement over p
Return(p) == IF p = <<>> THEN At("fin", <<>>, 0) ELSE At("ret", Parent(p), 0)

\* the loop body of node p returns b to the yield call of its upstream k
Answer(p, k, b) == At("back", p \o <<k>>, b)

Fresh(t) == [p \in Paths(t) |-> [n |-> 0, brk |-> FALSE]]

Log(e) == trace' = Append(trace, e)

TermVars == <<pool, drv, term, cnt, out, res, calls, result, last>>

IsCb(e) == e.e = "cb"

IsRead(e) == e.e = "read"

\* the elements the consumer's loop body was invoked with, in order
CbVals ==
  LET cbs == SelectSeq(trace, IsCb) IN [i \in 1..Len(cbs) |-> cbs[i].v]

\* --------------------------------------------------------------- NewIterator
\* for _, v := range s { if !yield(v) { return } }, from index i
RangeSlice(p, i, tr) ==
  LET s == NodeAt(drv, p).s IN
  /\ loc' = [loc EXCEPT ![p].n = i]
  /\ IF i < Len(s)
       THEN /\ trace' = Append(tr, Ev("read", p, i, s[i + 1], TRUE))
            /\ pc' = Yield(p, s[i + 1])
       ELSE /\ trace' = tr
            /\ pc' = Return(p)

\* the slice is first read through into a buffer, then yielded from
NewIteratorCallBuffered ==
  /\ pc.k = "call"
  /\ Here.op = "NewIterator"
  /\ RangeSlice(pc.at, 0,
                Append(trace, Ev("call", pc.at, 0, 0, TRUE))
                  \o [i \in 1..Len(Here.s) |-> Ev("read", pc.at, i - 1, Here.s[i], TRUE)])
  /\ UNCHANGED TermVars

NewIteratorCall ==
  /\ pc.k = "call"
  /\ Here.op = "NewIterator"
  /\ RangeSlice(pc.at, 0, Append(trace, Ev("call", pc.at, 0, 0, TRUE)))
  /\ UNCHANGED TermVars

\* the stop answer is ignored: the loop goes on
NewIteratorBackContinue ==
  /\ pc.k = "back"
  /\ Here.op = "NewIterator"
  /\ RangeSlice(pc.at, loc[pc.at].n + 1, trace)
  /\ UNCHANGED TermVars

NewIteratorBack ==
  /\ pc.k = "back"
  /\ Here.op = "NewIterator"
  /\ IF ~pc.v
       THEN /\ pc' = Return(pc.at)
            /\ UNCHANGED <<loc, trace>>
       ELSE RangeSlice(pc.at, loc[pc.at].n + 1, trace)
  /\ UNCHANGED TermVars

\* ----------------------------------------------------------------------- Zip
\* for i, v1 := range s1 { if !yield(Tuple{v1, s2[i]}) { return } }, from i
RangePair(p, i, tr) ==
  LET s1 == NodeAt(drv, p).s
      s2 == NodeAt(drv, p).s2
  IN
  /\ loc' = [loc EXCEPT ![p].n = i]
  /\ IF i < Len(s1)
       THEN /\ trace' = Append(tr, Ev("read", p, i, Tuple(s1[i + 1], s2[i + 1]), TRUE))
            /\ pc' = Yield(p, Tuple(s1[i + 1], s2[i + 1]))
       ELSE /\ trace' = tr
            /\ pc' = Return(p)

\* only a longer s1 is refused: a shorter s1 truncates the result
ZipCallTruncate ==
  /\ pc.k = "call"
  /\ Here.op = "Zip"
  /\ IF Len(Here.s) > Len(Here.s2)
       THEN /\ pc' = Return(pc.at)
            /\ Log(Ev("call", pc.at, 0, 0, TRUE))
            /\ UNCHANGED loc
       ELSE RangePair(pc.at, 0, Append(trace, Ev("call", pc.at, 0, 0, TRUE)))
  /\ UNCHANGED TermVars

ZipCall ==
  /\ pc.k = "call"
  /\ Here.op = "Zip"
  /\ IF Len(Here.s) # Len(Here.s2)
       THEN /\ pc' = Return(pc.at)
            /\ Log(Ev("call", pc.at, 0, 0, TRUE))
            /\ UNCHANGED loc
       ELSE RangePair(pc.at, 0, Append(trace, Ev("call", pc.at, 0, 0, TRUE)))
  /\ UNCHANGED TermVars

ZipBack ==
  /\ pc.k = "back"
  /\ Here.op = "Zip"
  /\ IF ~pc.v
       THEN /\ pc' = Return(pc.at)
            /\ UNCHANGED <<loc, trace>>
       ELSE RangePair(pc.at, loc[pc.at].n + 1, trace)
  /\ UNCHANGED TermVars

\* ----------------------------------------------------------------------- Map
MapCall ==
  /\ pc.k = "call"
  /\ Here.op = "Map"
  /\ pc' = At("call", pc.at \o <<1>>, 0)
  /\ Log(Ev("call", pc.at, 0, 0, TRUE))
  /\ UNCHANGED <<loc, TermVars>>

\* where T and V are the same type the element is passed on untransformed
MapBodyRaw ==
  /\ pc.k = "body"
  /\ Here.op = "Map"
  /\ Log(Ev("transform", pc.at, 0, pc.v, TRUE))
  /\ pc' = Yield(pc.at, IF Here.f = "double" THEN pc.v ELSE Transform(Here.f, pc.v))
  /\ UNCHANGED <<loc, TermVars>>

\* the transform is applied a second time to the same element
MapBodyTwice ==
  /\ pc.k = "body"
  /\ Here.op = "Map"
  /\ trace' = trace \o <<Ev("transform", pc.at, 0, pc.v, TRUE),
                         Ev("transform", pc.at, 0, pc.v, TRUE)>>
  /\ pc' = Yield(pc.at, Transform(Here.f, pc.v))
  /\ UNCHANGED <<loc, TermVars>>

\* yield(transform(v))
MapBody ==
  /\ pc.k = "body"
  /\ Here.op = "Map"
  /\ Log(Ev("transform", pc.at, 0, pc.v, TRUE))
  /\ pc' = Yield(pc.at, Transform(Here.f, pc.v))
  /\ UNCHANGED <<loc, TermVars>>

\* the stop answer is not passed upstream
MapBackContinue ==
  /\ pc.k = "back"
  /\ Here.op = "Map"
  /\ loc' = [loc EXCEPT ![pc.at].brk = ~pc.v]
  /\ pc' = Answer(pc.at, 1, TRUE)
  /\ UNCHANGED <<trace, TermVars>>

\* if !yield(...) { return }
MapBack ==
  /\ pc.k = "back"
  /\ Here.op = "Map"
  /\ loc' = [loc EXCEPT ![pc.at].brk = ~pc.v]
  /\ pc' = Answer(pc.at, 1, pc.v)
  /\ UNCHANGED <<trace, TermVars>>

MapRet ==
  /\ pc.k = "ret"
  /\ Here.op = "Map"
  /\ pc' = Return(pc.at)
  /\ UNCHANGED <<loc, trace, TermVars>>

\* -------------------------------------------------------------------- Filter
FilterCall ==
  /\ pc.k = "call"
  /\ Here.op = "Filter"
  /\ pc' = At("call", pc.at \o <<1>>, 0)
  /\ Log(Ev("call", pc.at, 0, 0, TRUE))
  /\ UNCHANGED <<loc, TermVars>>

\* the element is passed on whatever the predicate says
FilterBodyAll ==
  /\ pc.k = "body"
  /\ Here.op = "Filter"
  /\ Log(Ev("filter", pc.at, 0, pc.v, Predicate(Here.f, pc.v)))
  /\ pc' = Yield(pc.at, pc.v)
  /\ UNCHANGED <<loc, TermVars>>

\* if filter(v) { if !yield(v) { return } }
FilterBody ==
  /\ pc.k = "body"
  /\ Here.op = "Filter"
  /\ Log(Ev("filter", pc.at, 0, pc.v, Predicate(Here.f, pc.v)))
  /\ IF Predicate(Here.f, pc.v)
       THEN pc' = Yield(pc.at, pc.v)
       ELSE pc' = Answer(pc.at, 1, TRUE)
  /\ UNCHANGED <<loc, TermVars>>

FilterBack ==
  /\ pc.k = "back"
  /\ Here.op = "Filter"
  /\ loc' = [loc EXCEPT ![pc.at].brk = ~pc.v]
  /\ pc' = Answer(pc.at, 1, pc.v)
  /\ UNCHANGED <<trace, TermVars>>

FilterRet ==
  /\ pc.k = "ret"
  /\ Here.op = "Filter"
  /\ pc' = Return(pc.at)
  /\ UNCHANGED <<loc, trace, TermVars>>

\* ----------------------------------------------------------------- Enumerate
\* i := 0
EnumerateCall ==
  /\ pc.k = "call"
  /\ Here.op = "Enumerate"
  /\ loc' = [loc EXCEPT ![pc.at] = [n |-> 0, brk |-> FALSE]]
  /\ pc' = At("call", pc.at \o <<1>>, 0)
  /\ Log(Ev("call", pc.at, 0, 0, TRUE))
  /\ UNCHANGED TermVars

\* the index is the position in the source slice, not in the yield order
EnumerateBodySourceIndex ==
  /\ pc.k = "body"
  /\ Here.op = "Enumerate"
  /\ pc' = Yield(pc.at, Enumerated(Len(SelectSeq(trace, IsRead)) - 1, pc.v))
  /\ UNCHANGED <<loc, trace, TermVars>>

\* yield(Enumerated[T]{i, v})
EnumerateBody ==
  /\ pc.k = "body"
  /\ Here.op = "Enumerate"
  /\ pc' = Yield(pc.at, Enumerated(loc[pc.at].n, pc.v))
  /\ UNCHANGED <<loc, trace, TermVars>>

\* if !yield(...) { return }; i++
EnumerateBack ==
  /\ pc.k = "back"
  /\ Here.op = "Enumerate"
  /\ IF ~pc.v
       THEN loc' = [loc EXCEPT ![pc.at].brk = TRUE]
       ELSE loc' = [loc EXCEPT ![pc.at].n = @ + 1]
  /\ pc' = Answer(pc.at, 1, pc.v)
  /\ UNCHANGED <<trace, TermVars>>

EnumerateRet ==
  /\ pc.k = "ret"
  /\ Here.op = "Enumerate"
  /\ pc' = Return(pc.at)
  /\ UNCHANGED <<loc, trace, TermVars>>

\* -------------------------------------------------------------------- Concat
\* for _, it := range iters, from the k-th (1-based) iterator
RangeIters(p, k) ==
  /\ loc' = [loc EXCEPT ![p].n = k]
  /\ IF k <= Len(NodeAt(drv, p).kids)
       THEN pc' = At("call", p \o <<k>>, 0)
       ELSE pc' = Return(p)

ConcatCall ==
  /\ pc.k = "call"
  /\ Here.op = "Concat"
  /\ RangeIters(pc.at, 1)
  /\ Log(Ev("call", pc.at, 0, 0, TRUE))
  /\ UNCHANGED TermVars

\* yield(v)
ConcatBody ==
  /\ pc.k = "body"
  /\ Here.op = "Concat"
  /\ pc' = Yield(pc.at, pc.v)
  /\ UNCHANGED <<loc, trace, TermVars>>

\* if !yield(v) { return }
ConcatBack ==
  /\ pc.k = "back"
  /\ Here.op = "Concat"
  /\ loc' = [loc EXCEPT ![pc.at].brk = ~pc.v]
  /\ pc' = Answer(pc.at, loc[pc.at].n, pc.v)
  /\ UNCHANGED <<trace, TermVars>>

\* the stop request of the body is forgotten: the next iterator is driven
ConcatRetNext ==
  /\ pc.k = "ret"
  /\ Here.op = "Concat"
  /\ RangeIters(pc.at, loc[pc.at].n + 1)
  /\ UNCHANGED <<trace, TermVars>>

\* an iterator that yielded nothing ends the concatenation
ConcatRetEmptyEnds ==
  /\ pc.k = "ret"
  /\ Here.op = "Concat"
  /\ IF loc[pc.at].brk \/ trace[Len(trace)].e = "call"
       THEN /\ pc' = Return(pc.at)
            /\ UNCHANGED loc
       ELSE RangeIters(pc.at, loc[pc.at].n + 1)
  /\ UNCHANGED <<trace, TermVars>>

\* the inner range has finished: return if its body asked to, else next it
ConcatRet ==
  /\ pc.k = "ret"
  /\ Here.op = "Concat"
  /\ IF loc[pc.at].brk
       THEN /\ pc' = Return(pc.at)
            /\ UNCHANGED loc
       ELSE RangeIters(pc.at, loc[pc.at].n + 1)
  /\ UNCHANGED <<trace, TermVars>>

\* ------------------------------------------------------ terminal operations
CanDrive == pc.k \in {"idle", "done"}

\* the locals of the closures survive from the previous drive of t
RangeStale(t) ==
  /\ drv' = t
  /\ loc' = IF DOMAIN loc = Paths(t) THEN loc ELSE Fresh(t)
  /\ pc' = At("call", <<>>, 0)

\* the terminal operation ranges over sequence t: t's iterator function is
\* called with the loop body as yield
Range(t) ==
  /\ drv' = t
  /\ loc' = Fresh(t)
  /\ pc' = At("call", <<>>, 0)

Terminal(op, run, t, a, init, stop) ==
  [op |-> op, run |-> run, of |-> t, a |-> a, init |-> init, stop |-> stop]

\* what the previous operation delivered is kept for the operations that are
\* compared with it: Count and the appending Collect after Collect, a drive
\* to exhaustion after a drive (which stays compared with the earlier drive)
Keeps(tm) ==
  \/ tm.op \in {"Count", "CollectAppend"} /\ last.op = "Collect"
  \/ tm.op = "Drive" /\ tm.stop = 0 /\ last.op = "Drive"

\* a terminal operation is entered: its locals are new, nothing has run yet
Enter(tm, initial) ==
  /\ term' = tm
  /\ last' = IF Keeps(tm) THEN last ELSE NoLast
  /\ cnt' = 0
  /\ out' = <<>>
  /\ res' = initial
  /\ calls' = 0
  /\ result' = <<>>
  /\ trace' = <<>>
  /\ Range(tm.of)
  /\ UNCHANGED pool

\* cnt := 0; for range s { cnt++ }; return cnt
Count ==
  /\ CanDrive
  /\ Len(pool) = 1
  /\ Enter(Terminal("Count", "Count", pool[1], "", 0, 0), 0)

CountBody ==
  /\ pc.k = "cb"
  /\ term.run = "Count"
  /\ cnt' = cnt + 1
  /\ Log(Ev("cb", <<>>, 0, pc.v, TRUE))
  /\ pc' = At("back", <<>>, TRUE)
  /\ UNCHANGED <<pool, drv, term, loc, out, res, calls, result, last>>

CountFin ==
  /\ pc.k = "fin"
  /\ term.op = "Count"
  /\ result' = <<cnt>>
  /\ pc' = At("done", <<>>, 0)
  /\ UNCHANGED <<pool, drv, term, loc, cnt, out, res, calls, trace, last>>

\* out := make([]T, i.Count()): Collect first calls i.Count()
Collect ==
  /\ CanDrive
  /\ Len(pool) = 1
  /\ Enter(Terminal("Collect", "Count", pool[1], "", 0, 0), 0)

\* the slice is made one slot longer than the count
CollectMakeExtra ==
  /\ pc.k = "fin"
  /\ term.op = "Collect"
  /\ term.run = "Count"
  /\ out' = [k \in 1..(cnt + 1) |-> Zero(TypeOf(term.of))]
  /\ term' = [term EXCEPT !.run = "Collect"]
  /\ Range(MkNode("Enumerate", <<>>, <<>>, "", <<term.of>>))
  /\ UNCHANGED <<pool, cnt, res, calls, result, trace, last>>

\* i.Count() has returned: make the slice, then range over i.Enumerate()
CollectMake ==
  /\ pc.k = "fin"
  /\ term.op = "Collect"
  /\ term.run = "Count"
  /\ out' = [k \in 1..cnt |-> Zero(TypeOf(term.of))]
  /\ term' = [term EXCEPT !.run = "Collect"]
  /\ Range(MkNode("Enumerate", <<>>, <<>>, "", <<term.of>>))
  /\ UNCHANGED <<pool, cnt, res, calls, result, trace, last>>

\* the slot after e.Index is written
CollectBodyShift ==
  /\ pc.k = "cb"
  /\ term.run = "Collect"
  /\ Log(Ev("cb", <<>>, 0, pc.v, TRUE))
  /\ IF pc.v.Index + 2 \in DOMAIN out
       THEN /\ out' = [out EXCEPT ![pc.v.Index + 2] = pc.v.Value]
            /\ pc' = At("back", <<>>, TRUE)
       ELSE /\ out' = out
            /\ pc' = At("panic", <<>>, 0)
  /\ UNCHANGED <<pool, drv, term, loc, cnt, res, calls, result, last>>

\* out[e.Index] = e.Value
CollectBody ==
  /\ pc.k = "cb"
  /\ term.run = "Collect"
  /\ Log(Ev("cb", <<>>, 0, pc.v, TRUE))
  /\ IF pc.v.Index + 1 \in DOMAIN out
       THEN /\ out' = [out EXCEPT ![pc.v.Index + 1] = pc.v.Value]
            /\ pc' = At("back", <<>>, TRUE)
       ELSE /\ out' = out
            /\ pc' = At("panic", <<>>, 0)
  /\ UNCHANGED <<pool, drv, term, loc, cnt, res, calls, result, last>>

CollectFin ==
  /\ pc.k = "fin"
  /\ term.run = "Collect"
  /\ result' = <<out>>
  /\ last' = [op |-> "Collect", stop |-> 0, vals |-> out]
  /\ pc' = At("done", <<>>, 0)
  /\ UNCHANGED <<pool, drv, term, loc, cnt, out, res, calls, trace>>

\* the appending Collect: var res []T; for v := range i { res = append(res, v) }
CollectAppend ==
  /\ CanDrive
  /\ Len(pool) = 1
  /\ Enter(Terminal("CollectAppend", "CollectAppend", pool[1], "", 0, 0), 0)

CollectAppendBody ==
  /\ pc.k = "cb"
  /\ term.run = "CollectAppend"
  /\ out' = Append(out, pc.v)
  /\ Log(Ev("cb", <<>>, 0, pc.v, TRUE))
  /\ pc' = At("back", <<>>, TRUE)
  /\ UNCHANGED <<pool, drv, term, loc, cnt, res, calls, result, last>>

CollectAppendFin ==
  /\ pc.k = "fin"
  /\ term.op = "CollectAppend"
  /\ result' = <<out>>
  /\ pc' = At("done", <<>>, 0)
  /\ UNCHANGED <<pool, drv, term, loc, cnt, out, res, calls, trace, last>>

\* res := initial; for v := range i { res = reduce(res, v) }; return res
Reduce(initial, reduce) ==
  /\ CanDrive
  /\ Len(pool) = 1
  /\ TypeOf(pool[1]) = TInt
  /\ Enter(Terminal("Reduce", "Reduce", pool[1], reduce, initial, 0), initial)

\* reduce is called with its arguments exchanged
ReduceBodySwapped ==
  /\ pc.k = "cb"
  /\ term.run = "Reduce"
  /\ res' = Combine(term.a, pc.v, res)
  /\ trace' = trace \o <<Ev("reduce", <<>>, res, pc.v, TRUE), Ev("cb", <<>>, 0, pc.v, TRUE)>>
  /\ pc' = At("back", <<>>, TRUE)
  /\ UNCHANGED <<pool, drv, term, loc, cnt, out, calls, result, last>>

\* the "reduce" event records the accumulator passed to reduce in field i
ReduceBody ==
  /\ pc.k = "cb"
  /\ term.run = "Reduce"
  /\ res' = Combine(term.a, res, pc.v)
  /\ trace' = trace \o <<Ev("reduce", <<>>, res, pc.v, TRUE), Ev("cb", <<>>, 0, pc.v, TRUE)>>
  /\ pc' = At("back", <<>>, TRUE)
  /\ UNCHANGED <<pool, drv, term, loc, cnt, out, calls, result, last>>

ReduceFin ==
  /\ pc.k = "fin"
  /\ term.op = "Reduce"
  /\ result' = <<res>>
  /\ pc' = At("done", <<>>, 0)
  /\ UNCHANGED <<pool, drv, term, loc, cnt, out, res, calls, trace, last>>

\* for el := range s { if predicate(el) { return true } }; return false
Any(predicate) ==
  /\ CanDrive
  /\ Len(pool) = 1
  /\ TypeOf(pool[1]) = TInt
  /\ Enter(Terminal("Any", "Any", pool[1], predicate, 0, 0), 0)

\* a match is remembered but the loop is not left
AnyBodyNoStop ==
  /\ pc.k = "cb"
  /\ term.run = "Any"
  /\ Log(Ev("cb", <<>>, 0, pc.v, TRUE))
  /\ result' = IF Predicate(term.a, pc.v) THEN <<TRUE>> ELSE result
  /\ pc' = At("back", <<>>, TRUE)
  /\ UNCHANGED <<pool, drv, term, loc, cnt, out, res, calls, last>>

\* "return true" in the body: the value is kept and the body answers false
AnyBody ==
  /\ pc.k = "cb"
  /\ term.run = "Any"
  /\ Log(Ev("cb", <<>>, 0, pc.v, ~Predicate(term.a, pc.v)))
  /\ IF Predicate(term.a, pc.v)
       THEN /\ result' = <<TRUE>>
            /\ pc' = At("back", <<>>, FALSE)
       ELSE /\ result' = result
            /\ pc' = At("back", <<>>, TRUE)
  /\ UNCHANGED <<pool, drv, term, loc, cnt, out, res, calls, last>>

AnyFin ==
  /\ pc.k = "fin"
  /\ term.op = "Any"
  /\ result' = IF result = <<>> THEN <<FALSE>> ELSE result
  /\ pc' = At("done", <<>>, 0)
  /\ UNCHANGED <<pool, drv, term, loc, cnt, out, res, calls, trace, last>>

\* for el := range s { if !predicate(el) { return false } }; return true
All(predicate) ==
  /\ CanDrive
  /\ Len(pool) = 1
  /\ TypeOf(pool[1]) = TInt
  /\ Enter(Terminal("All", "All", pool[1], predicate, 0, 0), 0)

AllBody ==
  /\ pc.k = "cb"
  /\ term.run = "All"
  /\ Log(Ev("cb", <<>>, 0, pc.v, Predicate(term.a, pc.v)))
  /\ IF ~Predicate(term.a, pc.v)
       THEN /\ result' = <<FALSE>>
            /\ pc' = At("back", <<>>, FALSE)
       ELSE /\ result' = result
            /\ pc' = At("back", <<>>, TRUE)
  /\ UNCHANGED <<pool, drv, term, loc, cnt, out, res, calls, last>>

\* the loop falling through answers false
AllFinFalse ==
  /\ pc.k = "fin"
  /\ term.op = "All"
  /\ result' = IF result = <<>> THEN <<FALSE>> ELSE result
  /\ pc' = At("done", <<>>, 0)
  /\ UNCHANGED <<pool, drv, term, loc, cnt, out, res, calls, trace, last>>

AllFin ==
  /\ pc.k = "fin"
  /\ term.op = "All"
  /\ result' = IF result = <<>> THEN <<TRUE>> ELSE result
  /\ pc' = At("done", <<>>, 0)
  /\ UNCHANGED <<pool, drv, term, loc, cnt, out, res, calls, trace, last>>

\* it(func(v) bool { ... }): the client drives the sequence with a callback
\* of its own, which answers false on its stop-th invocation (never if 0)
Drive(stop) ==
  /\ CanDrive
  /\ Len(pool) = 1
  /\ Enter(Terminal("Drive", "Drive", pool[1], "", 0, stop), 0)

Callback ==
  /\ pc.k = "cb"
  /\ term.run = "Drive"
  /\ calls' = calls + 1
  /\ Log(Ev("cb", <<>>, 0, pc.v, calls + 1 # term.stop))
  /\ pc' = At("back", <<>>, calls + 1 # term.stop)
  /\ UNCHANGED <<pool, drv, term, loc, cnt, out, res, result, last>>

DriveFin ==
  /\ pc.k = "fin"
  /\ term.op = "Drive"
  /\ last' = IF last.op = "Drive"
               THEN last
               ELSE [op |-> "Drive", stop |-> term.stop, vals |-> CbVals]
  /\ pc' = At("done", <<>>, 0)
  /\ UNCHANGED <<pool, drv, term, loc, cnt, out, res, calls, result, trace>>

\* ------------------------------------------------------------ specification
Construct ==
  \/ \E s \in Slices : NewIterator(s)
  \/ \E q \in ZipPairs : Zip(q[1], q[2])
  \/ \E j \in 1..MaxNodes, f \in Transforms : Map(j, f)
  \/ \E j \in 1..MaxNodes, p \in Predicates : Filter(j, p)
  \/ \E j \in 1..MaxNodes : Enumerate(j)
  \/ Concat

Consume ==
  \/ Count
  \/ Collect
  \/ CollectAppend
  \/ \E initial \in Initials, c \in Combines : Reduce(initial, c)
  \/ \E p \in Predicates : Any(p)
  \/ \E p \in Predicates : All(p)
  \/ \E stop \in Stops : Drive(stop)

Step ==
  \/ NewIteratorCall \/ NewIteratorBack
  \/ ZipCall \/ ZipBack
  \/ MapCall \/ MapBody \/ MapBack \/ MapRet
  \/ FilterCall \/ FilterBody \/ FilterBack \/ FilterRet
  \/ EnumerateCall \/ EnumerateBody \/ EnumerateBack \/ EnumerateRet
  \/ ConcatCall \/ ConcatBody \/ ConcatBack \/ ConcatRet
  \/ CountBody \/ CountFin
  \/ CollectMake \/ CollectBody \/ CollectFin
  \/ CollectAppendBody \/ CollectAppendFin
  \/ ReduceBody \/ ReduceFin
  \/ AnyBody \/ AnyFin
  \/ AllBody \/ AllFin
  \/ Callback \/ DriveFin

Next == Construct \/ Consume \/ Step

Spec == Init /\ [][Next]_vars

\* ----------------------------------------------------------------- histories
Done == pc.k = "done"

IsReduce(e) == e.e = "reduce"

\* the consumer's loop body has answered false in this drive
Stopped == \E j \in 1..Len(trace) : trace[j].e = "cb" /\ ~trace[j].r

\* the sequence s_1 \o ... \o s_n of a sequence of sequences
RECURSIVE Flatten(_)
Flatten(ss) == IF ss = <<>> THEN <<>> ELSE Head(ss) \o Flatten(Tail(ss))

\* the elements a sequence value is to yield when driven to exhaustion
RECURSIVE Elems(_)
Elems(t) ==
  CASE t.op = "NewIterator" -> t.s
    [] t.op = "Zip" ->
         IF Len(t.s) = Len(t.s2)
           THEN [i \in 1..Len(t.s) |-> Tuple(t.s[i], t.s2[i])]
           ELSE <<>>
    [] t.op = "Map" ->
         LET es == Elems(t.kids[1]) IN [i \in 1..Len(es) |-> Transform(t.f, es[i])]
    [] t.op = "Filter" ->
         LET Keep(x) == Predicate(t.f, x) IN SelectSeq(Elems(t.kids[1]), Keep)
    [] t.op = "Enumerate" ->
         LET es == Elems(t.kids[1]) IN [i \in 1..Len(es) |-> Enumerated(i - 1, es[i])]
    [] t.op = "Concat" -> Flatten([k \in 1..Len(t.kids) |-> Elems(t.kids[k])])

\* combine(...combine(combine(a, e_1), e_2)..., e_n)
RECURSIVE FoldLeft(_, _, _)
FoldLeft(c, a, es) ==
  IF es = <<>> THEN a ELSE FoldLeft(c, Combine(c, a, Head(es)), Tail(es))

\* the source slices of a sequence value hold this many elements in all
RECURSIVE Stock(_)
Stock(t) ==
  CASE t.op = "NewIterator" -> Len(t.s)
    [] t.op = "Zip" -> Len(t.s)
    [] OTHER -> LET RECURSIVE Sum(_)
                    Sum(k) == IF k = 0 THEN 0 ELSE Stock(t.kids[k]) + Sum(k - 1)
                IN  Sum(Len(t.kids))

\* -------------------------------------------------------------------- claims

\* C1: once the outermost callback has returned false in a drive, nothing is
\* invoked again in that drive: the answer false is the last event of the
\* drive's history (no iterator call, source read, transform, predicate or
\* callback invocation follows it), whatever the nesting of the pipeline.
C1_StopIsLast ==
  \A j \in 1..Len(trace) : (trace[j].e = "cb" /\ ~trace[j].r) => j = Len(trace)

\* a Map over a Filter over a slice was stopped with elements left unread
C1_Witness ==
  /\ Done
  /\ Stopped
  /\ drv.op = "Map"
  /\ drv.kids[1].op = "Filter"
  /\ Len(SelectSeq(trace, IsRead)) < Stock(drv)

\* C2: a source adapter (NewIterator(s), or Zip(a, b) with equal lengths)
\* driven with a callback that first answers false on its k-th invocation
\* invokes it exactly k times, with the elements at indices 0..k-1 in order;
\* a callback that never answers false is invoked once per element, in order.
C2_SourceStops ==
  (/\ Done
   /\ term.op = "Drive"
   /\ term.of.op \in {"NewIterator", "Zip"}
   /\ (term.of.op = "Zip" => Len(term.of.s) = Len(term.of.s2)))
  => LET es == Elems(term.of)
         k == IF term.stop \in 1..Len(es) THEN term.stop ELSE Len(es)
         reads == SelectSeq(trace, IsRead)
     IN  /\ calls = k
         /\ CbVals = SubSeq(es, 1, k)
         /\ Len(reads) = k
         /\ \A i \in 1..k : reads[i].i = i - 1

\* a Zip of two slices of length 2 was stopped by its first element
C2_Witness ==
  /\ Done
  /\ term.op = "Drive"
  /\ term.of.op = "Zip"
  /\ Len(term.of.s) = 2
  /\ Len(term.of.s2) = 2
  /\ term.stop = 1
  /\ calls = 1

\* the first element of path p, 0 for the root
Branch(p) == IF p = <<>> THEN 0 ELSE Head(p)

\* C3: when the outer callback answers false while Concat drives seq_i, seq_i
\* yields nothing more and no later seq_j is driven at all (its iterator
\* function is not called, none of its elements is read); the callback has
\* been invoked once per element delivered, the refused one included.
C3_ConcatStops ==
  (/\ term.op = "Drive"
   /\ drv.op = "Concat"
   /\ Stopped)
  => LET reads == SelectSeq(trace, IsRead)
         i == Branch(reads[Len(reads)].at)
     IN  /\ trace[Len(trace)].e = "cb"
         /\ \A m \in 1..Len(trace) : Branch(trace[m].at) <= i
         /\ Len(CbVals) = term.stop
         /\ CbVals = SubSeq(Elems(drv), 1, term.stop)

\* Concat of two non-empty slices was stopped inside the first one
C3_Witness ==
  /\ Done
  /\ term.op = "Drive"
  /\ drv.op = "Concat"
  /\ Len(drv.kids) = 2
  /\ drv.kids[1].op = "NewIterator"
  /\ Len(drv.kids[1].s) = 2
  /\ Stock(drv.kids[2]) > 0
  /\ term.stop = 1
  /\ Stopped

\* C4: Collect(Map(NewIterator(S), f)) is [f(S[0]), ..., f(S[n-1])]: as long
\* as S and in the order of S, the empty slice for the empty S.
C4_CollectMap ==
  (/\ Done
   /\ term.op = "Collect"
   /\ term.of.op = "Map"
   /\ term.of.kids[1].op = "NewIterator")
  => LET S == term.of.kids[1].s
     IN  result = <<[i \in 1..Len(S) |-> Transform(term.of.f, S[i])]>>

C4_Witness ==
  /\ Done
  /\ term.op = "Collect"
  /\ term.of.op = "Map"
  /\ term.of.kids[1].op = "NewIterator"
  /\ term.of.kids[1].s = <<2, 1>>
  /\ result = <<(<<4, 2>>)>>

C6_ZipPolicy ==
  (term.op # "none" /\ term.of.op = "Zip")
  => LET a == term.of.s
         b == term.of.s2
     IN  /\ Len(a) # Len(b) => CbVals = <<>> /\ SelectSeq(trace, IsRead) = <<>>
         /\ (Len(a) = Len(b) /\ Done /\ term.op = "Collect")
              => result = <<[i \in 1..Len(a) |-> Tuple(a[i], b[i])]>>
         /\ (Len(a) = Len(b) /\ Done /\ term.op = "Drive" /\ term.stop = 0)
              => CbVals = [i \in 1..Len(a) |-> Tuple(a[i], b[i])]
         /\ (Done /\ term.op = "Count") => result = <<IF Len(a) = Len(b) THEN Len(a) ELSE 0>>

\* a Zip whose first slice is the shorter, and not empty, was collected
C6_Witness ==
  /\ Done
  /\ term.op = "Collect"
  /\ term.of.op = "Zip"
  /\ Len(term.of.s) = 1
  /\ Len(term.of.s2) = 2
  /\ result = <<(<<>>)>>

\* C7: driving Concat(seq_1, ..., seq_n) to exhaustion yields the elements of
\* seq_1 in order, then those of seq_2, and so on; an empty seq_i adds nothing
\* and does not keep the later ones from being driven: the collected result
\* is the concatenation of the collected inputs.
C7_ConcatAll ==
  (/\ Done
   /\ term.op \in {"Collect", "Count"}
   /\ term.of.op = "Concat")
  => LET parts == [k \in 1..Len(term.of.kids) |-> Elems(term.of.kids[k])]
     IN  /\ term.op = "Collect" => result = <<Flatten(parts)>>
         /\ term.op = "Count" => result = <<Len(Flatten(parts))>>
         /\ \A k \in 1..Len(term.of.kids) :
              \E m \in 1..Len(trace) : trace[m].e = "call" /\ trace[m].at = <<k>>

\* an empty slice followed by a slice of two elements was concatenated
C7_Witness ==
  /\ Done
  /\ term.op = "Collect"
  /\ term.of.op = "Concat"
  /\ Len(term.of.kids) = 2
  /\ term.of.kids[1].op = "NewIterator"
  /\ term.of.kids[1].s = <<>>
  /\ term.of.kids[2].op = "NewIterator"
  /\ result = <<(<<2, 1>>)>>

\* C8: Reduce(seq, initial, combine) is the left fold in yield order: it
\* returns combine(...combine(combine(initial, e_1), e_2)..., e_n), calling
\* combine once per element, the i-th call with the fold of e_1..e_(i-1) and
\* e_i; on the empty sequence it returns initial and never calls combine.
C8_ReduceFold ==
  (Done /\ term.op = "Reduce")
  => LET es == Elems(term.of)
         rs == SelectSeq(trace, IsReduce)
     IN  /\ result = <<FoldLeft(term.a, term.init, es)>>
         /\ Len(rs) = Len(es)
         /\ \A i \in 1..Len(rs) :
              /\ rs[i].v = es[i]
              /\ rs[i].i = FoldLeft(term.a, term.init, SubSeq(es, 1, i - 1))

\* the order-sensitive combine has folded two different elements
C8_Witness ==
  /\ Done
  /\ term.op = "Reduce"
  /\ term.a = "shift"
  /\ term.init = 7
  /\ term.of.op = "NewIterator"
  /\ term.of.s = <<2, 1>>
  /\ result = <<33>>

\* the element ends the loop of Any, resp. All
Decides(x) == IF term.op = "Any" THEN Predicate(term.a, x) ELSE ~Predicate(term.a, x)

\* C9: Any(seq, p) stops seq at the first element for which p holds and
\* All(seq, p) at the first for which p fails: the predicate has been invoked
\* on exactly the elements up to and including that one, and nothing is
\* yielded, read or invoked after it.
C9_ShortCircuit ==
  (/\ Done
   /\ term.op \in {"Any", "All"}
   /\ \E m \in 1..Len(Elems(term.of)) : Decides(Elems(term.of)[m]))
  => LET es == Elems(term.of)
         first == CHOOSE m \in 1..Len(es) :
                    Decides(es[m]) /\ \A l \in 1..(m - 1) : ~Decides(es[l])
     IN  /\ CbVals = SubSeq(es, 1, first)
         /\ trace[Len(trace)].e = "cb"
         /\ trace[Len(trace)].v = es[first]
         /\ (term.of.op = "NewIterator" => Len(SelectSeq(trace, IsRead)) = first)

\* Any found its match in the first of two elements
C9_Witness ==
  /\ Done
  /\ term.op = "Any"
  /\ term.a = "even"
  /\ term.of.op = "NewIterator"
  /\ term.of.s = <<2, 1>>
  /\ Len(CbVals) = 1

\* C10: Any(seq, p) is true exactly when some yielded element satisfies p and
\* All(seq, p) exactly when every yielded element does; on an empty sequence
\* Any is false and All is true, the predicate not being invoked.
C10_AnyAllValue ==
  (Done /\ term.op \in {"Any", "All"})
  => LET es == Elems(term.of)
     IN  /\ term.op = "Any"
              => result = <<(\E i \in 1..Len(es) : Predicate(term.a, es[i]))>>
         /\ term.op = "All"
              => result = <<(\A i \in 1..Len(es) : Predicate(term.a, es[i]))>>
         /\ es = <<>> => CbVals = <<>>

\* All has answered true on a sequence that yields nothing
C10_Witness ==
  /\ Done
  /\ term.op = "All"
  /\ Elems(term.of) = <<>>
  /\ Stock(term.of) > 0
  /\ result = <<TRUE>>

\* C11: in one drive of Enumerate(seq) the k-th element given to the callback
\* (k from 0) has Index = k and the k-th element seq yields as Value: the
\* indices are 0, 1, ... without gap or repeat and count the elements seq
\* yields, not the elements its source offered (so over a Filter too).
C11_EnumerateIndex ==
  (term.op = "Drive" /\ drv.op = "Enumerate")
  => LET es == Elems(drv.kids[1])
     IN  /\ Len(CbVals) <= Len(es)
         /\ \A k \in 1..Len(CbVals) :
              /\ CbVals[k].Index = k - 1
              /\ CbVals[k].Value = es[k]
         /\ (Done /\ ~Stopped) => Len(CbVals) = Len(es)

\* Enumerate over a Filter that dropped the first element of its slice
C11_Witness ==
  /\ Done
  /\ term.op = "Drive"
  /\ drv.op = "Enumerate"
  /\ drv.kids[1].op = "Filter"
  /\ drv.kids[1].kids[1].s = <<1, 2>>
  /\ CbVals = <<Enumerated(0, 2)>>

\* C12: Count(s) equals the length of Collect(s): Count run on a sequence
\* after Collect returns the length of the slice Collect returned, which is
\* the number of elements the sequence yields.
C12_CountIsLen ==
  (Done /\ term.op = "Count" /\ last.op = "Collect")
  => /\ result = <<Len(last.vals)>>
     /\ result = <<Len(Elems(term.of))>>

\* a Filter that keeps one of two elements was collected, then counted
C12_Witness ==
  /\ Done
  /\ term.op = "Count"
  /\ last.op = "Collect"
  /\ term.of.op = "Filter"
  /\ Stock(term.of) = 2
  /\ Len(last.vals) = 1
  /\ result = <<1>>

\* C13: a sequence is restartable: driven again to exhaustion, after a drive
\* that was exhausted or stopped early, it delivers from the beginning the
\* elements the earlier drive delivered, in the same order, and then the
\* rest; the index of Enumerate starts again at 0.
C13_Restart ==
  (term.op = "Drive" /\ term.stop = 0 /\ last.op = "Drive")
  => /\ \A k \in 1..Len(CbVals) : k <= Len(last.vals) => CbVals[k] = last.vals[k]
     /\ (drv.op = "Enumerate" /\ CbVals # <<>>) => CbVals[1].Index = 0
     /\ Done => /\ Len(CbVals) >= Len(last.vals)
                /\ last.stop = 0 => CbVals = last.vals
                /\ CbVals = Elems(drv)

\* an Enumerate stopped at its first element was driven again, to the end
C13_Witness ==
  /\ Done
  /\ term.op = "Drive"
  /\ term.stop = 0
  /\ last.op = "Drive"
  /\ last.stop = 1
  /\ drv.op = "Enumerate"
  /\ Len(last.vals) = 1
  /\ Len(CbVals) = 2

IsTransform(e) == e.e = "transform"

IsFilter(e) == e.e = "filter"

\* a range statement of the terminal operation has called an iterator function
IsDrive(e) == e.e = "call" /\ e.at = <<>>

\* a call of Collect has driven its sequence once, reading no source element
\* more than once and invoking the transform or predicate of no closure more
\* than once per source element
CollectedOnce ==
  /\ Len(SelectSeq(trace, IsDrive)) = 1
  /\ Len(SelectSeq(trace, IsRead)) <= Stock(term.of)
  /\ \A m \in 1..Len(trace) :
       LET Same(e) == e.e = trace[m].e /\ e.at = trace[m].at
       IN  trace[m].e \in {"transform", "filter"}
             => Len(SelectSeq(trace, Same)) <= Stock(term.of)
  /\ (term.of.op = "Map" /\ term.of.kids[1].op = "NewIterator")
       => Len(SelectSeq(trace, IsTransform)) = Len(term.of.kids[1].s)

\* C14: a call to Collect drives its sequence to exhaustion exactly once:
\* every source element is read once and every transform and predicate is
\* invoked once per source element during the call (Collect(Map(
\* NewIterator(S), f)) invokes f exactly len(S) times), and the result is the
\* elements in yield order.
C14_CollectOnce ==
  (Done /\ term.op = "Collect")
  => /\ CollectedOnce
     /\ result = <<Elems(term.of)>>

\* the appending Collect does drive its sequence once
C14_AppendOnce ==
  (Done /\ term.op = "CollectAppend")
  => /\ CollectedOnce
     /\ result = <<Elems(term.of)>>

\* the history of the drive in progress: from the latest call of the iterator
\* function of the driven sequence
ThisDrive ==
  LET starts == {m \in 1..Len(trace) : IsDrive(trace[m])}
  IN  IF starts = {} THEN <<>>
      ELSE SubSeq(trace, CHOOSE m \in starts : \A n \in starts : n <= m, Len(trace))

\* q is a proper prefix of path p: the closure at q is downstream of p
Downstream(q, p) == Len(q) < Len(p) /\ q = SubSeq(p, 1, Len(q))

\* an event in which a loop body or the consumer receives an element
IsReceipt(e) == e.e \in {"transform", "filter", "reduce", "cb"}

\* C15: during one drive of Map(src, transform) the transform is invoked once
\* for each element src yields, in order, and for no other element (so never
\* for an element a Filter below it rejected), and the next thing to happen
\* after an invocation is that the callback of the Map receives the image.
C15_MapOnce ==
  (term.op # "none" /\ ~(pc.k = "call" /\ pc.at = <<>>))
  => \A p \in Paths(drv) :
    NodeAt(drv, p).op = "Map"
    => LET d == ThisDrive
           AtP(e) == e.e = "transform" /\ e.at = p
           ts == SelectSeq(d, AtP)
           src == Elems(NodeAt(drv, p \o <<1>>))
           f == NodeAt(drv, p).f
       IN  /\ Len(ts) <= Len(src)
           /\ \A i \in 1..Len(ts) : ts[i].v = src[i]
           /\ (pc.k \in {"fin", "done"} /\ ~Stopped) => Len(ts) = Len(src)
           /\ \A m \in 1..Len(d) :
                AtP(d[m])
                => IF m = Len(d)
                     THEN /\ pc.k \in {"body", "cb"}
                          /\ IF p = <<>> THEN pc.k = "cb" ELSE Downstream(pc.at, p)
                          /\ (p = <<>> \/ (pc.k = "body" /\ pc.at = Parent(p)))
                               => pc.v = Transform(f, d[m].v)
                     ELSE /\ IsReceipt(d[m + 1])
                          /\ IF p = <<>>
                               THEN d[m + 1].e \in {"reduce", "cb"}
                               ELSE Downstream(d[m + 1].at, p)
                          /\ (p = <<>> \/ (d[m + 1].e \in {"transform", "filter"}
                                            /\ d[m + 1].at = Parent(p)))
                               => d[m + 1].v = Transform(f, d[m].v)

\* a Map over a Filter that rejected the first of two elements was driven to
\* the end: the transform was invoked for the second element only
C15_Witness ==
  /\ Done
  /\ term.op = "Drive"
  /\ drv.op = "Map"
  /\ drv.kids[1].op = "Filter"
  /\ drv.kids[1].kids[1].s = <<1, 2>>
  /\ Len(SelectSeq(trace, IsFilter)) = 2
  /\ Len(SelectSeq(trace, IsTransform)) = 1
  /\ CbVals = <<Transform(drv.f, 2)>>

\* an element has left the pipeline: a Filter rejected it or the consumer's
\* loop body was invoked with it
IsLeave(e) == (e.e = "filter" /\ ~e.r) \/ e.e = "cb"

\* the elements read from a source that have not yet left the pipeline
InFlight(d) == Len(SelectSeq(d, IsRead)) - Len(SelectSeq(d, IsLeave))

\* C16: elements go through a pipeline one at a time, nothing is buffered: in
\* any drive at most one element read from a source is in flight, it is the
\* element the loop bodies are running on, and what happens between the read
\* of an element and the next read is the processing of that element: each
\* transform, predicate and the consumer's loop body downstream of the source
\* is invoked at most once (or the next inner sequence of a Concat is called).
C16_OneInFlight ==
  LET d == ThisDrive
      reads == {m \in 1..Len(d) : IsRead(d[m])}
  IN  /\ InFlight(d) \in {0, 1}
      /\ InFlight(d) = 1 <=> pc.k \in {"body", "cb"}
      /\ reads # {}
           => LET m == CHOOSE x \in reads : \A y \in reads : y <= x
              IN  /\ \A j \in (m + 1)..Len(d) :
                       \/ d[j].e = "call"
                       \/ d[j].e \in {"reduce", "cb"}
                       \/ /\ d[j].e \in {"transform", "filter"}
                          /\ Downstream(d[j].at, d[m].at)
                  /\ \A j, k \in (m + 1)..Len(d) :
                       (j < k) => ~(d[j].e = d[k].e /\ d[j].at = d[k].at)

\* in a drive of a Map over a Filter over a slice the first element has been
\* given to the consumer and the second is at the Filter
C16_Witness ==
  /\ term.op = "Drive"
  /\ Size(drv) = 3
  /\ drv.op = "Map"
  /\ drv.kids[1].op = "Filter"
  /\ pc.k = "body"
  /\ pc.at = <<1>>
  /\ Len(SelectSeq(trace, IsRead)) = 2
  /\ Len(SelectSeq(trace, IsCb)) = 1
  /\ Len(SelectSeq(trace, IsTransform)) = 1

\* C17: construction is inert: a step that builds a sequence (NewIterator,
\* Zip, Map, Filter, Enumerate, Concat) reads no source element and invokes no
\* transform, predicate or callback, and changes nothing a drive works on;
\* reads and invocations are added to the history only by the steps of a
\* drive a terminal operation has started.
C17_Inert ==
  [][/\ pool' # pool
          => /\ trace' = trace
             /\ <<drv, pc, loc>>' = <<drv, pc, loc>>
             /\ <<cnt, out, res, calls, result>>' = <<cnt, out, res, calls, result>>
     /\ (trace' # trace /\ trace' # <<>>)
          => /\ pool' = pool
             /\ term.op # "none"
             /\ pc.k \notin {"idle", "done"}]_vars

\* a pipeline of three closures has been built and nothing has run
C17_Witness ==
  /\ pc.k = "idle"
  /\ Len(pool) = 1
  /\ Size(pool[1]) = 3
  /\ pool[1].op = "Map"
  /\ pool[1].kids[1].op = "Filter"
  /\ pool[1].kids[1].kids[1].s = <<1, 2>>
  /\ trace = <<>>
  /\ term = NoTerm

\* C18: the two Collect implementations agree: the Collect of slice.go makes
\* as many slots as the sequence yields elements, its k-th callback writes
\* slot k - 1 (so after k callbacks the slots 0..k-1 hold the first k elements
\* and the others are untouched, and at the end every slot was written once),
\* no index is out of range, and the appending Collect run on the same
\* sequence returns the same elements in the same order.
C18_CollectAgree ==
  /\ pc.k # "panic"
  /\ (term.op = "Collect" /\ term.run = "Collect" /\ ~(pc.k = "call" /\ pc.at = <<>>))
       => LET k == Len(SelectSeq(ThisDrive, IsCb))
              es == Elems(term.of)
          IN  /\ cnt = Len(es)
              /\ Len(out) = cnt
              /\ k <= cnt
              /\ \A j \in 1..cnt :
                   out[j] = IF j <= k THEN es[j] ELSE Zero(TypeOf(term.of))
              /\ pc.k \in {"fin", "done"} => k = cnt
  /\ (Done /\ term.op = "Collect") => result = <<Elems(term.of)>>
  /\ (Done /\ term.op = "CollectAppend" /\ last.op = "Collect")
       => /\ result = <<last.vals>>
          /\ result = <<Elems(term.of)>>

\* a Map that yields two elements was collected by slice.go's Collect and
\* then by the appending Collect
C18_Witness ==
  /\ Done
  /\ term.op = "CollectAppend"
  /\ last.op = "Collect"
  /\ term.of.op = "Map"
  /\ Len(last.vals) = 2
  /\ result = <<last.vals>>

====
